---- MODULE Spec2Model ----
(***************************************************************************)
(* Model of scripts/fetch-blog-posts.py: the RSS aggregation pipeline.     *)
(*                                                                         *)
(* Python strings are sequences of one-character strings, so that strip,   *)
(* lower, comparison and the strptime/isoformat round trip are computed.   *)
(* An optional value (Python None or a value) is a sequence of length 0    *)
(* or 1: None is << >>, the value v is <<v>>.                              *)
(***************************************************************************)
EXTENDS Integers, Sequences, FiniteSets, TLC

\* ---------------------------------------------------------------- bounds
\* Longest list of blogs a configuration holds, in Spec.
MaxBlogs == 2
\* Longest feed a source answers with, in Spec.
MaxItems == 2
\* Longest feed fetch_posts is applied to, in SpecFn.
MaxFnItems == 2
\* Longest feed whose posts are sorted, in SpecSort.
MaxSortItems == 3

\* ------------------------------------------------------- Python strings
None == << >>
Some(v) == <<v>>
IsNone(o) == Len(o) = 0
Val(o) == o[1]

\* The characters of the model, in code point order.
Alphabet ==
    << " ", "+", ",", "-",
       "0", "1", "2", "3", "4", "5", "6", "7", "8", "9", ":",
       "A", "B", "C", "D", "E", "F", "G", "H", "I", "J", "K", "L", "M",
       "N", "O", "P", "Q", "R", "S", "T", "U", "V", "W", "X", "Y", "Z",
       "a", "b", "c", "d", "e", "f", "g", "h", "i", "j", "k", "l", "m",
       "n", "o", "p", "q", "r", "s", "t", "u", "v", "w", "x", "y", "z" >>

AlphabetSet == {Alphabet[k] : k \in 1..Len(Alphabet)}
OrdOf == [c \in AlphabetSet |-> CHOOSE k \in 1..Len(Alphabet) : Alphabet[k] = c]
Ord(c) == OrdOf[c]

Digits == <<"0", "1", "2", "3", "4", "5", "6", "7", "8", "9">>
DigitSet == {Digits[k] : k \in 1..10}
DigitValOf == [c \in DigitSet |-> (CHOOSE k \in 1..10 : Digits[k] = c) - 1]
IsDigit(c) == c \in DigitSet
DigitVal(c) == DigitValOf[c]

IsSpace(c) == c = " "
IsUpper(c) == Ord("A") <= Ord(c) /\ Ord(c) <= Ord("Z")

\* str.lower() on one character, and on a string.
LowerOf ==
    [c \in AlphabetSet |->
        IF IsUpper(c) THEN Alphabet[Ord(c) - Ord("A") + Ord("a")] ELSE c]
LowerChar(c) == LowerOf[c]
lower(s) == [k \in 1..Len(s) |-> LowerChar(s[k])]

\* str.strip(): drop leading and trailing whitespace.
strip(s) ==
    LET ns == {k \in 1..Len(s) : ~IsSpace(s[k])}
    IN  IF ns = {} THEN << >>
        ELSE LET lo == CHOOSE k \in ns : \A j \in ns : k <= j
                 hi == CHOOSE k \in ns : \A j \in ns : j <= k
             IN  SubSeq(s, lo, hi)

\* Python's < and <= on strings: code point order, a proper prefix is smaller.
StrLess(a, b) ==
    LET n == IF Len(a) < Len(b) THEN Len(a) ELSE Len(b)
        d == {k \in 1..n : a[k] # b[k]}
    IN  IF d = {} THEN Len(a) < Len(b)
        ELSE LET k == CHOOSE x \in d : \A y \in d : x <= y
             IN  Ord(a[k]) < Ord(b[k])
StrLeq(a, b) == a = b \/ StrLess(a, b)

\* text(el), lines 19-20. An element is None (find() found nothing) or
\* Some(t), t the element's text; ElementTree gives an element without
\* text the text None, which `el.text` treats like the empty string.
text(el) == IF ~IsNone(el) /\ Val(el) # << >> THEN Some(strip(Val(el))) ELSE None

\* Python truthiness of an optional string: not None and not "".
Truthy(o) == ~IsNone(o) /\ Val(o) # << >>

\* ------------------------------------------- datetime.strptime / isoformat
\* datetime.strptime(pubDate, '%a, %d %b %Y %H:%M:%S %z').isoformat(), line 49.
\* _strptime turns the format into a regular expression that must match the
\* whole string: names are matched ignoring case, a run of spaces in the
\* format is \s+, and each numeric directive has one- and two-digit forms.
\* A parse position is an index into the string; 0 means "no match".
Weekdays ==
    << <<"m","o","n">>, <<"t","u","e">>, <<"w","e","d">>, <<"t","h","u">>,
       <<"f","r","i">>, <<"s","a","t">>, <<"s","u","n">> >>
Months ==
    << <<"j","a","n">>, <<"f","e","b">>, <<"m","a","r">>, <<"a","p","r">>,
       <<"m","a","y">>, <<"j","u","n">>, <<"j","u","l">>, <<"a","u","g">>,
       <<"s","e","p">>, <<"o","c","t">>, <<"n","o","v">>, <<"d","e","c">> >>

\* %a and %b: the index of the three-letter name at p, 0 if there is none.
NameAt(s, p, names) ==
    IF p = 0 \/ p + 2 > Len(s) THEN 0
    ELSE LET w == lower(SubSeq(s, p, p + 2))
             hit == {k \in 1..Len(names) : names[k] = w}
         IN  IF hit = {} THEN 0 ELSE CHOOSE k \in hit : TRUE

\* A literal character c at p: the position after it, or 0.
Lit(s, p, c) == IF p # 0 /\ p <= Len(s) /\ s[p] = c THEN p + 1 ELSE 0

\* \s+ at p: the position after the run of spaces, or 0 if there is none.
Spaces(s, p) ==
    IF p = 0 \/ p > Len(s) \/ ~IsSpace(s[p]) THEN 0
    ELSE LET rest == {k \in p..Len(s) : ~IsSpace(s[k])}
         IN  IF rest = {} THEN Len(s) + 1
             ELSE CHOOSE k \in rest : \A j \in rest : k <= j

\* A numeric directive at p whose two-digit forms are lo2..hi and whose
\* one-digit forms are lo1..9: [val, next], next = 0 if it does not match.
\* The two-digit alternatives come first in the regular expression.
NumAt(s, p, lo2, hi, lo1) ==
    LET d1 == p # 0 /\ p <= Len(s) /\ IsDigit(s[p])
        d2 == d1 /\ p + 1 <= Len(s) /\ IsDigit(s[p + 1])
        v2 == IF d2 THEN 10 * DigitVal(s[p]) + DigitVal(s[p + 1]) ELSE 0
        v1 == IF d1 THEN DigitVal(s[p]) ELSE 0
    IN  IF d2 /\ lo2 <= v2 /\ v2 <= hi THEN [val |-> v2, next |-> p + 2]
        ELSE IF d1 /\ lo1 <= v1 THEN [val |-> v1, next |-> p + 1]
        ELSE [val |-> 0, next |-> 0]

\* Exactly two digits at p with value at most hi: [val, next].
TwoDigits(s, p, hi) ==
    IF p # 0 /\ p + 1 <= Len(s) /\ IsDigit(s[p]) /\ IsDigit(s[p + 1])
       /\ 10 * DigitVal(s[p]) + DigitVal(s[p + 1]) <= hi
    THEN [val |-> 10 * DigitVal(s[p]) + DigitVal(s[p + 1]), next |-> p + 2]
    ELSE [val |-> 0, next |-> 0]

\* %Y: exactly four digits.
YearAt(s, p) ==
    IF p # 0 /\ p + 3 <= Len(s) /\ \A k \in p..(p + 3) : IsDigit(s[k])
    THEN [val |-> 1000 * DigitVal(s[p]) + 100 * DigitVal(s[p + 1])
                  + 10 * DigitVal(s[p + 2]) + DigitVal(s[p + 3]),
          next |-> p + 4]
    ELSE [val |-> 0, next |-> 0]

\* %z: Z, or [+-]hh[:]mm with optional [:]ss, the colons used consistently.
\* [neg, secs, next]; secs is the size of the offset in seconds.
ZoneAt(s, p) ==
    LET bad == [neg |-> FALSE, secs |-> 0, next |-> 0]
    IN  IF p = 0 \/ p > Len(s) THEN bad
        ELSE IF s[p] = "Z" THEN [neg |-> FALSE, secs |-> 0, next |-> p + 1]
        ELSE IF s[p] \notin {"+", "-"} THEN bad
        ELSE LET hh == TwoDigits(s, p + 1, 99)
                 c1 == Lit(s, hh.next, ":") # 0
                 mm == TwoDigits(s, IF c1 THEN hh.next + 1 ELSE hh.next, 59)
                 c2 == Lit(s, mm.next, ":") # 0
                 ss == TwoDigits(s, IF c2 THEN mm.next + 1 ELSE mm.next, 59)
                 neg == s[p] = "-"
             IN  IF hh.next = 0 \/ mm.next = 0 THEN bad
                 ELSE IF mm.next = Len(s) + 1
                      THEN [neg |-> neg, secs |-> 3600 * hh.val + 60 * mm.val,
                            next |-> mm.next]
                 ELSE IF ss.next = 0 \/ c1 # c2 THEN bad
                 ELSE [neg |-> neg,
                       secs |-> 3600 * hh.val + 60 * mm.val + ss.val,
                       next |-> ss.next]

IsLeap(y) == (y % 4 = 0 /\ y % 100 # 0) \/ y % 400 = 0
DaysIn(m, y) ==
    IF m = 2 THEN (IF IsLeap(y) THEN 29 ELSE 28)
    ELSE IF m \in {4, 6, 9, 11} THEN 30 ELSE 31

Pad2(n) == <<Digits[(n \div 10) + 1], Digits[(n % 10) + 1]>>
Pad4(n) == Pad2(n \div 100) \o Pad2(n % 100)

\* datetime.isoformat() of an aware datetime without microseconds.
isoformat(y, mo, d, h, mi, sec, neg, off) ==
    Pad4(y) \o <<"-">> \o Pad2(mo) \o <<"-">> \o Pad2(d) \o <<"T">>
    \o Pad2(h) \o <<":">> \o Pad2(mi) \o <<":">> \o Pad2(sec)
    \o <<(IF neg /\ off > 0 THEN "-" ELSE "+")>>
    \o Pad2(off \div 3600) \o <<":">> \o Pad2((off % 3600) \div 60)
    \o (IF off % 60 # 0 THEN <<":">> \o Pad2(off % 60) ELSE << >>)

\* strptime(s, fmt).isoformat(): Some(iso), or None when strptime raises
\* (no match, unconverted data, or a date, time or offset out of range).
strptime_iso(s) ==
    LET a   == NameAt(s, 1, Weekdays)
        p1  == Spaces(s, Lit(s, IF a = 0 THEN 0 ELSE 4, ","))
        dd  == NumAt(s, p1, 1, 31, 1)
        p2  == Spaces(s, dd.next)
        b   == NameAt(s, p2, Months)
        p3  == Spaces(s, IF b = 0 THEN 0 ELSE p2 + 3)
        yy  == YearAt(s, p3)
        p4  == Spaces(s, yy.next)
        hh  == NumAt(s, p4, 0, 23, 0)
        mi  == NumAt(s, Lit(s, hh.next, ":"), 0, 59, 0)
        sec == NumAt(s, Lit(s, mi.next, ":"), 0, 61, 0)
        z   == ZoneAt(s, Spaces(s, sec.next))
    IN  IF z.next # Len(s) + 1 THEN None
        ELSE IF yy.val < 1 \/ dd.val > DaysIn(b, yy.val) \/ sec.val > 59
                \/ z.secs >= 86400
        THEN None
        ELSE Some(isoformat(yy.val, b, dd.val, hh.val, mi.val, sec.val,
                            z.neg, z.secs))

\* ---------------------------------------------------------------- inputs
\* Strings the inputs are built from.
sBobPadded == <<" ", "B", "o", "b", " ">>
sBOB == <<"B", "O", "B">>
sBobby == <<"b", "o", "b", "b", "y">>
sAl == <<"A", "l">>
sPaddedBob == <<" ", "b", "o", "b">>
sBlank == <<" ", " ">>
sEmpty == << >>
sHiPadded == <<" ", "H", "i", " ">>
sHi == <<"H", "i">>
sUrl == <<"u">>
sCatA == <<"a">>
sCatBPadded == <<" ", "b", " ">>
sJun3 == <<"T", "u", "e", ",", " ", "0", "3", " ", "J", "u", "n", " ", "2", "0", "2", "5", " ", "1", "4", ":", "2", "2", ":", "0", "0", " ", "+", "0", "0", "0", "0">>
sJun3Padded == <<" ", "T", "u", "e", ",", " ", "0", "3", " ", "J", "u", "n", " ", "2", "0", "2", "5", " ", "1", "4", ":", "2", "2", ":", "0", "0", " ", "+", "0", "0", "0", "0", " ">>
sJun2 == <<"M", "o", "n", ",", " ", "2", " ", "J", "u", "n", " ", "2", "0", "2", "5", " ", "9", ":", "0", "5", ":", "0", "7", " ", "-", "0", "5", "3", "0">>
sJan1Z == <<"w", "e", "d", ",", " ", "0", "1", " ", "j", "a", "n", " ", "2", "0", "2", "0", " ", "0", "0", ":", "0", "0", ":", "0", "0", " ", "Z">>
sFeb30 == <<"F", "r", "i", ",", " ", "3", "0", " ", "F", "e", "b", " ", "2", "0", "2", "4", " ", "1", "0", ":", "0", "0", ":", "0", "0", " ", "+", "0", "0", "0", "0">>
sNotADate == <<"n", "o", "t", " ", "a", " ", "d", "a", "t", "e">>

NoItemFields ==
    [creator |-> None, title |-> None, link |-> None, pubDate |-> None,
     description |-> None, category |-> << >>]

\* Items of the feeds main() reads in Spec.
ItemBob ==
    [NoItemFields EXCEPT !.creator = Some(sBobPadded), !.title = Some(sHiPadded),
                         !.link = Some(sUrl), !.pubDate = Some(sJun3),
                         !.category = <<Some(sCatA)>>]
ItemAl ==
    [NoItemFields EXCEPT !.creator = Some(sAl), !.title = Some(sHi),
                         !.pubDate = Some(sNotADate)]
ItemBare == NoItemFields
ItemJun2 ==
    [NoItemFields EXCEPT !.creator = Some(sBOB), !.pubDate = Some(sJun2),
                         !.title = Some(sEmpty), !.link = Some(sEmpty),
                         !.description = Some(sHiPadded),
                         !.category = <<Some(sEmpty), Some(sCatBPadded),
                                        Some(sBlank), Some(sCatA)>>]
ItemBlank ==
    [NoItemFields EXCEPT !.creator = Some(sBlank), !.pubDate = Some(sBlank),
                         !.title = Some(sBlank), !.link = Some(sBlank),
                         !.description = Some(sBlank),
                         !.category = <<Some(sBlank)>>]
ItemJun3Other ==
    [NoItemFields EXCEPT !.creator = Some(sAl), !.pubDate = Some(sJun3Padded),
                         !.description = Some(sHi)]
MainItems == {ItemBob, ItemBare}

\* Items fetch_posts is applied to in SpecFn: every shape of creator,
\* pubDate, text field and category list the code distinguishes.
FnItems ==
    { ItemBob, ItemAl, ItemBare,
      ItemJun2, ItemBlank, ItemJun3Other,
      [NoItemFields EXCEPT !.creator = Some(sEmpty), !.pubDate = Some(sEmpty),
                           !.description = Some(sEmpty),
                           !.category = <<Some(sCatA), Some(sCatA)>>],
      [NoItemFields EXCEPT !.creator = Some(sBobby), !.pubDate = Some(sFeb30),
                           !.title = Some(sHi), !.link = Some(sUrl)],
      [NoItemFields EXCEPT !.pubDate = Some(sJan1Z), !.title = Some(sHi),
                           !.category = <<Some(sCatBPadded), Some(sCatA)>>] }

\* Items of the feed whose posts are sorted in SpecSort: two parseable
\* dates, one of them twice, an unparseable one, a blank one and none.
SortItems == {ItemBob, ItemJun3Other, ItemJun2, ItemAl, ItemBlank, ItemBare}

\* ----------------------------------------------------------- fetch_posts
\* A response is what urlopen and ET.fromstring make of a feed URL:
\* status "ok" (a parsed document), "urlerror" (urlopen raises) or
\* "parseerror" (ET.fromstring raises); channel says whether the root has a
\* channel child; items are the channel's item elements in document order.
\* An item is [creator, title, link, pubDate, description, category]: the
\* first five are the child element found (None or Some(text)), category
\* the texts of the category children in document order.
FetchRaises(resp) == resp.status # "ok"

\* `if authors:` (line 37): a filter is active iff it is a non-empty list.
FilterActive(authors) == ~IsNone(authors) /\ Len(Val(authors)) > 0

\* [a.lower() for a in authors], as the set membership is tested against.
LoweredAuthors(authors) == {lower(Val(authors)[k]) : k \in 1..Len(Val(authors))}

\* Variant of Keeps: the creator is compared without lower().
KeepsCaseSensitive(item, authors) ==
    LET creator_val == text(item.creator)
    IN  ~(FilterActive(authors)
          /\ (~Truthy(creator_val)
              \/ strip(Val(creator_val)) \notin LoweredAuthors(authors)))

\* Lines 33-39: whether the loop reaches the append for this item.
Keeps(item, authors) ==
    LET creator_val == text(item.creator)
    IN  ~(FilterActive(authors)
          /\ (~Truthy(creator_val)
              \/ lower(strip(Val(creator_val))) \notin LoweredAuthors(authors)))

\* Variant of Categories: the condition reads c.text instead of text(c).
CategoriesKeepsBlank(cs) ==
    LET kept == SelectSeq(cs, LAMBDA c : Val(c) # << >>)
    IN  [k \in 1..Len(kept) |-> strip(Val(kept[k]))]

\* Line 45: [text(c) for c in item.findall('category') if text(c)].
Categories(cs) ==
    LET kept == SelectSeq(cs, LAMBDA c : Truthy(text(c)))
    IN  [k \in 1..Len(kept) |-> Val(text(kept[k]))]

\* Variant of IsoDate: isoDate starts as None instead of pubDate.
IsoDateDropsRaw(pubDate) ==
    IF IsNone(pubDate) THEN pubDate
    ELSE strptime_iso(Val(pubDate))

\* Lines 47-51: isoDate = pubDate, replaced by the ISO form unless strptime
\* raises (pubDate None raises TypeError, which the except swallows too).
IsoDate(pubDate) ==
    IF IsNone(pubDate) THEN pubDate
    ELSE IF IsNone(strptime_iso(Val(pubDate))) THEN pubDate
    ELSE strptime_iso(Val(pubDate))

\* Lines 41-61: the record appended for an item.
ItemPost(item, source_id) ==
    [source      |-> source_id,
     title       |-> text(item.title),
     url         |-> text(item.link),
     date        |-> IsoDate(text(item.pubDate)),
     author      |-> text(item.creator),
     categories  |-> Categories(item.category),
     description |-> text(item.description)]

\* ItemPost, computed once for each item of the inputs above: the record
\* depends on the item alone, but for its source.
PostTable == [i \in FnItems |-> ItemPost(i, "")]
PostOf(item, source_id) ==
    IF item \in FnItems THEN [PostTable[item] EXCEPT !.source = source_id]
    ELSE ItemPost(item, source_id)

\* Lines 31-62: the loop over items, from item k on.
RECURSIVE PostsFrom(_, _, _, _)
PostsFrom(items, k, source_id, authors) ==
    IF k > Len(items) THEN << >>
    ELSE (IF Keeps(items[k], authors) THEN <<PostOf(items[k], source_id)>>
          ELSE << >>)
         \o PostsFrom(items, k + 1, source_id, authors)

\* fetch_posts(url, source_id, authors) when it returns (lines 23-62);
\* line 29: no channel means no items.
fetch_posts(resp, source_id, authors) ==
    PostsFrom(IF resp.channel THEN resp.items ELSE << >>, 1, source_id, authors)

\* ------------------------------------------------------------------ main
\* Line 114: key=lambda p: p.get('date') or ''.
SortKey(p) == IF Truthy(p.date) THEN Val(p.date) ELSE << >>

\* Variant of SortInsert: p goes before the elements of equal key.
SortInsertUnstable(sorted, p) ==
    LET before == {k \in 1..Len(sorted) : StrLess(SortKey(p), SortKey(sorted[k]))}
        n == Cardinality(before)
    IN  SubSeq(sorted, 1, n) \o <<p>> \o SubSeq(sorted, n + 1, Len(sorted))

\* list.sort(key=..., reverse=True), line 114: descending by key and stable
\* (reverse=True keeps the original order of equal keys). Insert p into a
\* sorted list after every element whose key is >= p's key.
SortInsert(sorted, p) ==
    LET before == {k \in 1..Len(sorted) : StrLeq(SortKey(p), SortKey(sorted[k]))}
        n == Cardinality(before)
    IN  SubSeq(sorted, 1, n) \o <<p>> \o SubSeq(sorted, n + 1, Len(sorted))

RECURSIVE SortFrom(_, _, _)
SortFrom(posts, k, sorted) ==
    IF k > Len(posts) THEN sorted
    ELSE SortFrom(posts, k + 1, SortInsert(sorted, posts[k]))

SortDesc(posts) == SortFrom(posts, 1, << >>)

\* Line 96: blog.get('id', 'unknown').
BlogId(blog) == IF IsNone(blog.id) THEN "unknown" ELSE Val(blog.id)

\* Lines 105-107. A limit is None or Some([isint, n]): isint is
\* isinstance(limit, int), n the number (a limit that is not an int, such
\* as the string "1", is truthy and skips the truncation).
LimitApplies(limit) == ~IsNone(limit) /\ Val(limit).isint /\ Val(limit).n > 0

\* Variant of ApplyLimit: posts[-limit:], the last posts instead of the first.
ApplyLimitKeepsLast(posts, limit) ==
    IF LimitApplies(limit)
    THEN SubSeq(posts,
                IF Val(limit).n < Len(posts) THEN Len(posts) - Val(limit).n + 1 ELSE 1,
                Len(posts))
    ELSE posts

ApplyLimit(posts, limit) ==
    IF LimitApplies(limit)
    THEN SubSeq(posts, 1, IF Val(limit).n < Len(posts) THEN Val(limit).n ELSE Len(posts))
    ELSE posts

\* Line 87: authors = [args.author] if args.author else None.
LegacyAuthors(author) == IF Truthy(author) THEN Some(<<Val(author)>>) ELSE None

\* ------------------------------------------------------- further inputs
\* Author filters fetch_posts is applied with in SpecFn.
FnAuthors ==
    { None, Some(<< >>), Some(<<sBOB>>), Some(<<sAl, sBobby>>),
      Some(<<sPaddedBob>>), Some(<<sEmpty>>) }

\* All sequences over S of length at most n.
SeqsUpTo(S, n) == UNION {[1..k -> S] : k \in 0..n}

\* What a feed URL can answer with.
Responses(items, n) ==
    {[status |-> "ok", channel |-> TRUE, items |-> f] : f \in SeqsUpTo(items, n)}
    \cup {[status |-> "ok", channel |-> FALSE, items |-> << >>],
          [status |-> "urlerror", channel |-> FALSE, items |-> << >>],
          [status |-> "parseerror", channel |-> FALSE, items |-> << >>]}

IntLimit(n) == Some([isint |-> TRUE, n |-> n])
NonIntLimit(n) == Some([isint |-> FALSE, n |-> n])

\* Entries of the `blogs` list of a configuration (section 6 of the spec:
\* id, url, authors, limit), every field optional.
BlogEntries ==
    { [id |-> Some("a"), url |-> Some(sUrl), authors |-> None, limit |-> None],
      [id |-> Some("b"), url |-> Some(sUrl), authors |-> Some(<<sBOB, sAl>>),
       limit |-> IntLimit(1)],
      [id |-> None, url |-> Some(sUrl), authors |-> Some(<< >>),
       limit |-> IntLimit(1)],
      [id |-> Some("c"), url |-> Some(sUrl), authors |-> None,
       limit |-> IntLimit(0)],
      [id |-> Some("d"), url |-> Some(sUrl), authors |-> None,
       limit |-> NonIntLimit(1)],
      [id |-> Some("e"), url |-> None, authors |-> None, limit |-> None],
      [id |-> Some("f"), url |-> Some(sEmpty), authors |-> Some(<<sBOB>>),
       limit |-> IntLimit(-1)] }

\* The answers a fetch can get and the lists load_config can return, in Spec.
MainResponses == Responses(MainItems, MaxItems)
Configs == SeqsUpTo(BlogEntries, MaxBlogs)

\* Command lines: config mode (no --url), and --url with and without --author.
ArgSets ==
    { [url |-> None, author |-> None],
      [url |-> Some(sUrl), author |-> None],
      [url |-> Some(sUrl), author |-> Some(sEmpty)],
      [url |-> Some(sUrl), author |-> Some(sBOB)] }

\* The content of the output file before the run.
OldPosts == <<PostOf(ItemBare, "previous")>>

\* ----------------------------------------------------------------- state
VARIABLES
    args,       \* the parsed command line: [url, author]
    pc,         \* where main() is: "main", "loop", "sort", "write", "done", "failed"
    blogs,      \* the list load_config returned
    idx,        \* the position in blogs of the next blog of the for loop
    all_posts,  \* the list all_posts of main()
    resp,       \* the answer to the latest fetch: None before any, else Some(response)
    fetches,    \* how many times fetch_posts was called
    outFile,    \* the content of the file at args.out
    writes,     \* how many times the output file was opened for writing
    exitCode,   \* None while the process runs, then Some(0) or Some(1)
    fnPc,       \* SpecFn: "call", then "returned" or "raised"
    fnResp,     \* SpecFn: the response fetch_posts reads
    fnAuthors,  \* SpecFn: its authors argument
    fnPosts     \* SpecFn: the list it returned

mainVars == <<args, pc, blogs, idx, all_posts, resp, fetches, outFile, writes, exitCode>>
fnVars == <<fnPc, fnResp, fnAuthors, fnPosts>>
vars == <<mainVars, fnVars>>

FnIdle ==
    /\ fnPc = "idle"
    /\ fnResp = [status |-> "ok", channel |-> FALSE, items |-> << >>]
    /\ fnAuthors = None
    /\ fnPosts = << >>

\* The process starts: arguments parsed, all_posts = [] (lines 75-83).
Init ==
    /\ args \in ArgSets
    /\ pc = "main"
    /\ blogs = << >>
    /\ idx = 1
    /\ all_posts = << >>
    /\ resp = None
    /\ fetches = 0
    /\ outFile = OldPosts
    /\ writes = 0
    /\ exitCode = None
    /\ FnIdle

\* An exception leaves main(): lines 122-127 print it and exit with code 1.
Abort ==
    /\ pc' = "failed"
    /\ exitCode' = Some(1)

\* The for loop (line 95) takes the blog at position n, or is over.
LoopAt(n, bs) == IF n <= Len(bs) THEN "loop" ELSE "sort"

\* Variant of LegacyFetch: the output file is opened for writing before the fetch.
LegacyFetchOpensFirst ==
    /\ pc = "main"
    /\ Truthy(args.url)
    /\ outFile' = << >>
    /\ writes' = writes + 1
    /\ \E r \in MainResponses :
        /\ resp' = Some(r)
        /\ fetches' = fetches + 1
        /\ IF FetchRaises(r)
           THEN Abort /\ UNCHANGED all_posts
           ELSE /\ all_posts' = all_posts
                       \o fetch_posts(r, "custom", LegacyAuthors(args.author))
                /\ pc' = "sort"
                /\ UNCHANGED exitCode
    /\ UNCHANGED <<args, blogs, idx, fnVars>>

\* Lines 86-91: legacy mode, one fetch outside any try.
LegacyFetch ==
    /\ pc = "main"
    /\ Truthy(args.url)
    /\ \E r \in MainResponses :
        /\ resp' = Some(r)
        /\ fetches' = fetches + 1
        /\ IF FetchRaises(r)
           THEN Abort /\ UNCHANGED all_posts
           ELSE /\ all_posts' = all_posts
                       \o fetch_posts(r, "custom", LegacyAuthors(args.author))
                /\ pc' = "sort"
                /\ UNCHANGED exitCode
    /\ UNCHANGED <<args, blogs, idx, outFile, writes, fnVars>>

\* Line 94 and lines 65-71: load_config returns the blogs list, or raises
\* (no yaml module, unreadable file, a document that is not a mapping).
LoadConfig ==
    /\ pc = "main"
    /\ ~Truthy(args.url)
    /\ \/ /\ Abort
          /\ UNCHANGED <<blogs, idx>>
       \/ \E bs \in Configs :
            /\ blogs' = bs
            /\ idx' = 1
            /\ pc' = LoopAt(1, bs)
            /\ UNCHANGED exitCode
    /\ UNCHANGED <<args, all_posts, resp, fetches, outFile, writes, fnVars>>

\* Variant of SkipBlog: a blog without url raises.
SkipBlogAborts ==
    /\ pc = "loop"
    /\ ~Truthy(blogs[idx].url)
    /\ Abort
    /\ UNCHANGED <<args, blogs, idx, all_posts, resp, fetches, outFile, writes, fnVars>>

\* Lines 95-101: a blog without url is skipped.
SkipBlog ==
    /\ pc = "loop"
    /\ ~Truthy(blogs[idx].url)
    /\ idx' = idx + 1
    /\ pc' = LoopAt(idx + 1, blogs)
    /\ UNCHANGED <<args, blogs, all_posts, resp, fetches, outFile, writes,
                   exitCode, fnVars>>

\* Lines 102-111: fetch, limit and extend inside try; except Exception
\* prints a warning and the loop goes on.
FetchBlog ==
    /\ pc = "loop"
    /\ Truthy(blogs[idx].url)
    /\ \E r \in MainResponses :
        /\ resp' = Some(r)
        /\ fetches' = fetches + 1
        /\ all_posts' =
              IF FetchRaises(r) THEN all_posts
              ELSE all_posts
                   \o ApplyLimit(fetch_posts(r, BlogId(blogs[idx]), blogs[idx].authors),
                                 blogs[idx].limit)
    /\ idx' = idx + 1
    /\ pc' = LoopAt(idx + 1, blogs)
    /\ UNCHANGED <<args, blogs, outFile, writes, exitCode, fnVars>>

\* Lines 113-114: all_posts.sort(...).
SortPosts ==
    /\ pc = "sort"
    /\ all_posts' = SortDesc(all_posts)
    /\ pc' = "write"
    /\ UNCHANGED <<args, blogs, idx, resp, fetches, outFile, writes, exitCode, fnVars>>

\* Lines 116-119: the file is opened for writing and all_posts dumped;
\* main() returns and the process exits with code 0.
WriteOutput ==
    /\ pc = "write"
    /\ outFile' = all_posts
    /\ writes' = writes + 1
    /\ pc' = "done"
    /\ exitCode' = Some(0)
    /\ UNCHANGED <<args, blogs, idx, all_posts, resp, fetches, fnVars>>

Next ==
    \/ LegacyFetch
    \/ LoadConfig
    \/ SkipBlog
    \/ FetchBlog
    \/ SortPosts
    \/ WriteOutput

Spec == Init /\ [][Next]_vars

\* ---------------------------------------------------------------- SpecFn
\* fetch_posts as a function of the response and the author filter.
MainIdle ==
    /\ args = [url |-> None, author |-> None]
    /\ pc = "idle"
    /\ blogs = << >>
    /\ idx = 1
    /\ all_posts = << >>
    /\ resp = None
    /\ fetches = 0
    /\ outFile = OldPosts
    /\ writes = 0
    /\ exitCode = None

InitFn ==
    /\ MainIdle
    /\ fnPc = "call"
    /\ fnResp \in Responses(FnItems, MaxFnItems)
    /\ fnAuthors \in FnAuthors
    /\ fnPosts = << >>

\* fetch_posts(url, "src", authors), lines 23-62.
CallFetchPosts ==
    /\ fnPc = "call"
    /\ IF FetchRaises(fnResp)
       THEN fnPc' = "raised" /\ UNCHANGED fnPosts
       ELSE fnPc' = "returned" /\ fnPosts' = fetch_posts(fnResp, "src", fnAuthors)
    /\ UNCHANGED <<fnResp, fnAuthors, mainVars>>

NextFn == CallFetchPosts

SpecFn == InitFn /\ [][NextFn]_vars

\* -------------------------------------------------------------- SpecSort
\* main() from line 113 on, entered as legacy mode enters it: the answer r
\* to the one fetch has been turned into all_posts.
InitSort ==
    /\ args = [url |-> Some(sUrl), author |-> None]
    /\ pc = "sort"
    /\ blogs = << >>
    /\ idx = 1
    /\ \E r \in {x \in Responses(SortItems, MaxSortItems) : ~FetchRaises(x)} :
        /\ resp = Some(r)
        /\ all_posts = fetch_posts(r, "custom", LegacyAuthors(args.author))
    /\ fetches = 1
    /\ outFile = OldPosts
    /\ writes = 0
    /\ exitCode = None
    /\ FnIdle

NextSort == SortPosts \/ WriteOutput

SpecSort == InitSort /\ [][NextSort]_vars

\* ======================================================================
\* Properties
\* ======================================================================
Min(a, b) == IF a < b THEN a ELSE b

\* The items fetch_posts read in SpecFn, and an item's creator as the
\* filter sees it: present when the element has text that is not blank.
FnFeed == IF fnResp.channel THEN fnResp.items ELSE << >>
HasCreator(item) == ~IsNone(item.creator) /\ strip(Val(item.creator)) # << >>
CreatorMatches(item, entries) ==
    /\ HasCreator(item)
    /\ \E k \in 1..Len(entries) :
          lower(strip(Val(item.creator))) = lower(entries[k])

\* ---------------------------------------------------------------- C1
\* C1: a fetch or parse failure of a source, in config mode or for the
\* source made from --url, never aborts the run: whenever the latest fetch
\* failed the process has not exited with an error, and a finished run has
\* written the output.
C1_FetchFailureNeverAborts ==
    (~IsNone(resp) /\ FetchRaises(Val(resp)))
        => /\ pc # "failed"
           /\ exitCode # Some(1)
           /\ (pc = "done" => writes = 1 /\ outFile = all_posts)

\* ---------------------------------------------------------------- C2
\* C2: fetch_posts returns, in document order, every item when the filter
\* is absent or empty, and otherwise exactly the items whose creator,
\* trimmed and lower-cased, equals the lower-cased form of a filter entry;
\* an item without creator (no element, no text, blank text) is excluded
\* whenever a filter is active.
C2_FilterSelectsMatchingItems ==
    fnPc = "returned" =>
        LET selected ==
                IF IsNone(fnAuthors) \/ Val(fnAuthors) = << >> THEN FnFeed
                ELSE SelectSeq(FnFeed, LAMBDA i : CreatorMatches(i, Val(fnAuthors)))
        IN  /\ Len(fnPosts) = Len(selected)
            /\ \A k \in 1..Len(selected) : fnPosts[k] = PostOf(selected[k], "src")
            /\ (FilterActive(fnAuthors) =>
                   \A k \in 1..Len(fnPosts) : Truthy(fnPosts[k].author))

\* A filter of one entry keeps " Bob " for the entry "BOB", and drops the
\* item without creator that follows it.
C2_Witness ==
    /\ fnPc = "returned"
    /\ fnAuthors = Some(<<sBOB>>)
    /\ fnResp.items = <<ItemBob, ItemBare>>
    /\ Len(fnPosts) = 1
    /\ fnPosts[1].author = Some(<<"B", "o", "b">>)

\* ---------------------------------------------------------------- C5
\* C5: in every emitted post, title, url and description are absent or a
\* non-empty trimmed string, never the empty string.
TextFieldOk(o) == IsNone(o) \/ (Val(o) # << >> /\ strip(Val(o)) = Val(o))
C5_TextFieldsAbsentOrNonEmpty ==
    fnPc = "returned" =>
        \A k \in 1..Len(fnPosts) :
            /\ TextFieldOk(fnPosts[k].title)
            /\ TextFieldOk(fnPosts[k].url)
            /\ TextFieldOk(fnPosts[k].description)

\* ---------------------------------------------------------------- C6
\* What CPython's strptime(...).isoformat() gives for the pubDate texts of
\* the items that match the pattern.
IsoExpected(s) ==
    CASE s = sJun3 -> <<"2", "0", "2", "5", "-", "0", "6", "-", "0", "3", "T", "1", "4", ":", "2", "2", ":", "0", "0", "+", "0", "0", ":", "0", "0">>
      [] s = sJun2 -> <<"2", "0", "2", "5", "-", "0", "6", "-", "0", "2", "T", "0", "9", ":", "0", "5", ":", "0", "7", "-", "0", "5", ":", "3", "0">>
      [] s = sJan1Z -> <<"2", "0", "2", "0", "-", "0", "1", "-", "0", "1", "T", "0", "0", ":", "0", "0", ":", "0", "0", "+", "0", "0", ":", "0", "0">>
MatchingDates == {sJun3, sJun2, sJan1Z}

\* The items whose posts fetch_posts emitted, in order.
FnKept == SelectSeq(FnFeed, LAMBDA i : Keeps(i, fnAuthors))

NonBlankCategories(cs) ==
    LET keep == SelectSeq(cs, LAMBDA c : strip(Val(c)) # << >>)
    IN  [k \in 1..Len(keep) |-> strip(Val(keep[k]))]
C7_CategoriesNonBlankInOrder ==
    fnPc = "returned" =>
        /\ Len(fnPosts) = Len(FnKept)
        /\ \A k \in 1..Len(FnKept) :
              /\ fnPosts[k].categories = NonBlankCategories(FnKept[k].category)
              /\ \A j \in 1..Len(fnPosts[k].categories) :
                    fnPosts[k].categories[j] # << >>

\* Four category elements, two of them empty or blank, leave two entries.
C7_Witness ==
    /\ fnPc = "returned"
    /\ \E k \in 1..Len(fnPosts) :
          /\ Len(FnKept[k].category) = 4
          /\ fnPosts[k].categories = <<<<"b">>, <<"a">>>>

\* ---------------------------------------------------------------- C3
\* A limit is a positive integer.
PositiveInt(limit) == ~IsNone(limit) /\ Val(limit).isint /\ Val(limit).n >= 1

\* after is before followed by the first `count` posts of filtered, each
\* tagged id.
AppendsFirst(before, after, filtered, count, id) ==
    /\ Len(after) = Len(before) + count
    /\ SubSeq(after, 1, Len(before)) = before
    /\ SubSeq(after, Len(before) + 1, Len(after)) = SubSeq(filtered, 1, count)
    /\ \A k \in (Len(before) + 1)..Len(after) : after[k].source = id

\* The number of posts the claim lets a source with this limit contribute
\* out of its filtered posts.
LimitedCount(limit, filtered) ==
    IF PositiveInt(limit) THEN Min(Val(limit).n, Len(filtered)) ELSE Len(filtered)

\* C3: in config mode a fetch that succeeds appends to the aggregate
\* exactly the first min(limit, M) of the source's M filtered posts, in
\* parse order, when limit is a positive integer, and all M otherwise,
\* each tagged with the source's id ('unknown' without id); a fetch that
\* fails appends nothing. What was aggregated before is kept in front, so
\* the size of the aggregate is the sum of the per-source counts.
C3_LimitKeepsFirstFiltered ==
    [][(pc = "loop" /\ Truthy(blogs[idx].url)) =>
          IF FetchRaises(Val(resp')) THEN all_posts' = all_posts
          ELSE LET blog == blogs[idx]
                   filtered == fetch_posts(Val(resp'), BlogId(blog), blog.authors)
               IN  AppendsFirst(all_posts, all_posts', filtered,
                                LimitedCount(blog.limit, filtered), BlogId(blog))
       ]_vars

\* Source a without limit gave 2 posts, source b with limit 1 had 2 posts
\* passing its filter: 2 + 1 = 3 posts are aggregated, not yet sorted.
C3_Witness ==
    /\ pc = "sort"
    /\ Len(blogs) = 2
    /\ blogs[1].id = Some("a") /\ blogs[2].id = Some("b")
    /\ blogs[2].limit = IntLimit(1)
    /\ Len(fetch_posts(Val(resp), "b", blogs[2].authors)) = 2
    /\ Len(all_posts) = 3
    /\ all_posts[1].source = "a" /\ all_posts[2].source = "a"
    /\ all_posts[3].source = "b"

\* ---------------------------------------------------------------- C4
\* The sort key of the claim: the date, the empty string when absent.
DateKey(p) == IF IsNone(p.date) THEN << >> ELSE Val(p.date)

\* b is a with its posts in descending key order, equal keys in a's order.
StableDescending(a, b) ==
    /\ Len(b) = Len(a)
    /\ \A k \in {DateKey(a[i]) : i \in 1..Len(a)} \cup {DateKey(b[i]) : i \in 1..Len(b)} :
          SelectSeq(b, LAMBDA p : DateKey(p) = k) = SelectSeq(a, LAMBDA p : DateKey(p) = k)
    /\ \A i \in 1..(Len(b) - 1) : StrLeq(DateKey(b[i + 1]), DateKey(b[i]))
    /\ \A i, j \in 1..Len(b) :
          (IsNone(b[i].date) /\ ~IsNone(b[j].date) /\ Val(b[j].date) # << >>) => j < i

\* C4: the sort turns the aggregate into its stable descending sort by
\* key (adjacent keys in >= order, absent dates after every non-empty
\* date, equal keys in aggregation order), and that list is what is
\* written.
C4_OutputStableDescending ==
    [][/\ pc = "sort" => StableDescending(all_posts, all_posts')
       /\ pc = "write" => outFile' = all_posts
      ]_vars

\* An output of three posts that the sort reordered: an absent date last,
\* before it two different posts with one key, in their feed order.
C4_Witness ==
    /\ pc = "done"
    /\ Len(outFile) = 3
    /\ outFile # fetch_posts(Val(resp), "custom", None)
    /\ Val(resp).items = <<ItemBare, ItemBob, ItemJun3Other>>
    /\ outFile[1] = PostOf(ItemBob, "custom")
    /\ outFile[2] = PostOf(ItemJun3Other, "custom")
    /\ DateKey(outFile[1]) = DateKey(outFile[2])
    /\ IsNone(outFile[3].date)

Descending(posts) ==
    \A i \in 1..(Len(posts) - 1) : StrLeq(DateKey(posts[i + 1]), DateKey(posts[i]))

\* C10: the output file is written at most once, and only when every
\* source has been processed and the aggregate sorted; a run that aborts
\* (load_config raises, or the --url fetch fails) leaves the file as it
\* was and exits with code 1.
C10_WrittenOnceAtEnd ==
    /\ writes <= 1
    /\ writes = 0 => outFile = OldPosts
    /\ writes = 1 =>
          /\ pc = "done"
          /\ idx = Len(blogs) + 1
          /\ outFile = all_posts
          /\ Descending(outFile)
    /\ pc = "failed" =>
          /\ writes = 0
          /\ outFile = OldPosts
          /\ exitCode = Some(1)
    /\ exitCode = Some(1) => pc = "failed"

\* The --url fetch failed: the process exited with code 1.
C10_Witness ==
    /\ pc = "failed"
    /\ Truthy(args.url)
    /\ fetches = 1
    /\ FetchRaises(Val(resp))
    /\ exitCode = Some(1)
    /\ outFile = OldPosts

====
